---------------------------- MODULE Spec2Model ----------------------------
(***************************************************************************)
(* A model of the mbox-to-eml converter (src/mbox_to_eml_converter.py) and *)
(* of the batch import tool (src/mbox_to_eml_gui.py).                      *)
(*                                                                         *)
(* Text is a sequence of code points (integers), so that the character     *)
(* classes of the regular expressions are sets of integers and the file    *)
(* names are the strings the programs build.                               *)
(*                                                                         *)
(* Four specifications share the variables; each leaves the variables of   *)
(* the others at their initial values:                                     *)
(*   SpecSanitize   the two filename sanitizers, as pure functions         *)
(*   SpecPartition  the batch-splitting loop, as a pure function           *)
(*   SpecConvert    convert_mbox_to_eml and main of the CLI converter      *)
(*   SpecGui        MboxToEmlBatchGUI.run, invoked repeatedly              *)
(***************************************************************************)
EXTENDS Integers, Sequences, FiniteSets, TLC

VARIABLES
    \* ---- sanitizer harness
    filename,       \* the text handed to the sanitizer
    max_length,     \* its max_length / max_len argument
    called,         \* "none", "sanitize_filename" or "sanitize"
    result,         \* what the sanitizer returned
    \* ---- partition harness
    eml_files,      \* the ordered input of the batch-splitting loop
    bs,             \* batch_size
    mb,             \* batch_mb
    batches,        \* the loop's output
    part_pc,        \* "input" or "done"
    \* ---- CLI converter
    conv_pc,        \* "start", "loop", "returned", "raised" or "exited"
    n_msgs,         \* number of messages the archive holds
    index,          \* enumerate(mbox, 1) position of the last message taken
    success_count,
    error_count,
    total_count,
    exit_code,      \* -1 until main calls sys.exit
    out_fs,         \* output directory: file name -> content
    start_fs,       \* the output directory as the run found it
    written,        \* paths opened for writing by this run, in order
    outcomes,       \* per message taken so far: "ok" or "fail"
    \* ---- GUI tool
    gui_fs,         \* [all_eml, batch_dirs, instructions] under out_dir
    gui_prev,       \* gui_fs as the last run found it
    gui_last,       \* [status, bs, mb] of the last run, and all_valid:
                    \* every run so far had batch_size, batch_mb >= 1
    gui_runs        \* number of runs so far

sanVars  == <<filename, max_length, called, result>>
partVars == <<eml_files, bs, mb, batches, part_pc>>
convVars == <<conv_pc, n_msgs, index, success_count, error_count, total_count,
              exit_code, out_fs, start_fs, written, outcomes>>
guiVars  == <<gui_fs, gui_prev, gui_last, gui_runs>>
vars     == <<sanVars, partVars, convVars, guiVars>>

-----------------------------------------------------------------------------
(* Bounds of the model *)

MaxStrLen == 3      \* longest text handed to a sanitizer
MaxLenArg == 5      \* largest small max_length tried besides the defaults
MaxFiles  == 3      \* longest input of the partition harness
MaxBs     == 2      \* largest batch_size
MaxMb     == 2      \* largest batch_mb
MaxMsgs   == 2      \* most messages in an archive
MaxRuns   == 2      \* most runs of the GUI tool

-----------------------------------------------------------------------------
(* Text helpers *)

\* Python's s[:k], k possibly negative
PySliceTo(s, k) ==
    LET n == IF k >= 0 THEN (IF k < Len(s) THEN k ELSE Len(s))
             ELSE (IF Len(s) + k > 0 THEN Len(s) + k ELSE 0)
    IN  SubSeq(s, 1, n)

\* re.sub(class, repl, s) for a one-character class and a replacement text
RECURSIVE ReSubClass(_, _, _)
ReSubClass(class, repl, s) ==
    IF s = <<>> THEN <<>>
    ELSE (IF Head(s) \in class THEN repl ELSE <<Head(s)>>)
         \o ReSubClass(class, repl, Tail(s))

\* what \s matches in a str pattern, and what str.strip() strips
PyWhitespace ==
    {9, 10, 11, 12, 13, 28, 29, 30, 31, 32, 133, 160, 5760, 8232, 8233,
     8239, 8287, 12288} \cup (8192..8202)

RECURSIVE LStrip(_)
LStrip(s) ==
    IF s # <<>> /\ Head(s) \in PyWhitespace THEN LStrip(Tail(s)) ELSE s

RECURSIVE RStrip(_)
RStrip(s) ==
    IF s # <<>> /\ s[Len(s)] \in PyWhitespace
    THEN RStrip(SubSeq(s, 1, Len(s) - 1)) ELSE s

\* str.strip()
Strip(s) == RStrip(LStrip(s))

\* re.sub(r'\s+', ' ', s): every maximal run of whitespace becomes one space
RECURSIVE CollapseWs(_)
CollapseWs(s) ==
    IF s = <<>> THEN <<>>
    ELSE IF Head(s) \in PyWhitespace
         THEN <<32>> \o CollapseWs(LStrip(s))
         ELSE <<Head(s)>> \o CollapseWs(Tail(s))

-----------------------------------------------------------------------------
(* The sanitizers *)

\* the class [<>:"/\|?*] of the CLI converter: \| is an escaped bar, so the
\* class holds < > : " / | ? * and no backslash
CliInvalidChars == {60, 62, 58, 34, 47, 124, 63, 42}

\* the class [<>:"/\\|?*] of the GUI tool: the same with the backslash
GuiInvalidChars == {60, 62, 58, 34, 47, 92, 124, 63, 42}

\* the class [\x00-\x1f]
ControlChars == 0..31

\* "unnamed_email"
UnnamedEmail == <<117, 110, 110, 97, 109, 101, 100, 95, 101, 109, 97, 105, 108>>

\* "No_Subject"
NoSubject == <<78, 111, 95, 83, 117, 98, 106, 101, 99, 116>>

\* "..."
Ellipsis == <<46, 46, 46>>

\* sanitize_filename(filename, max_length)
sanitize_filename(fname, maxlen) ==
    LET replaced  == ReSubClass(CliInvalidChars, <<95>>, fname)
        removed   == ReSubClass(ControlChars, <<>>, replaced)
        stripped  == Strip(removed)
        truncated == IF Len(stripped) > maxlen
                     THEN PySliceTo(stripped, maxlen - 4) \o Ellipsis
                     ELSE stripped
    IN  IF truncated # <<>> THEN truncated ELSE UnnamedEmail

\* MboxToEmlBatchGUI.sanitize(text, max_len)
sanitize(text, max_len) ==
    LET replaced  == ReSubClass(GuiInvalidChars, <<95>>, text)
        collapsed == Strip(CollapseWs(replaced))
        cut       == PySliceTo(collapsed, max_len)
    IN  IF cut # <<>> THEN cut ELSE NoSubject

\* default max_length of sanitize_filename
CliDefaultMaxLength == 100

\* default max_len of MboxToEmlBatchGUI.sanitize
GuiDefaultMaxLen == 50


-----------------------------------------------------------------------------
(* The batch-splitting loop of MboxToEmlBatchGUI.run.  A file is a record  *)
(* [name, size]; a batch is a sequence of files.                           *)

\* bytes per unit of batch_mb: maxb = mb*1024*1024
MiB == 1024 * 1024

RECURSIVE SumSizes(_)
SumSizes(b) == IF b = <<>> THEN 0 ELSE Head(b).size + SumSizes(Tail(b))

\* BatchStep closing a batch one file too late (> for >=)
BatchStepOffByOne(st, f, batch_size, maxb) ==
    LET sz == f.size
        c  == IF Len(st.cur) > batch_size \/ st.cur_size + sz > maxb
              THEN [batches |-> Append(st.batches, st.cur),
                    cur |-> <<>>, cur_size |-> 0]
              ELSE st
    IN  [batches |-> c.batches, cur |-> Append(c.cur, f),
         cur_size |-> c.cur_size + sz]

\* one iteration of "for f in eml_files", st = [batches, cur, cur_size]
BatchStep(st, f, batch_size, maxb) ==
    LET sz == f.size
        c  == IF Len(st.cur) >= batch_size \/ st.cur_size + sz > maxb
              THEN [batches |-> Append(st.batches, st.cur),
                    cur |-> <<>>, cur_size |-> 0]
              ELSE st
    IN  [batches |-> c.batches, cur |-> Append(c.cur, f),
         cur_size |-> c.cur_size + sz]

\* the whole loop, from batches=[] and cur,cur_size=[],0
RECURSIVE BatchLoop(_, _, _, _)
BatchLoop(st, files, batch_size, maxb) ==
    IF files = <<>> THEN st
    ELSE BatchLoop(BatchStep(st, Head(files), batch_size, maxb),
                   Tail(files), batch_size, maxb)

\* BatchSplit without the final "if cur: batches.append(cur)"
BatchSplitNoFlush(files, batch_size, batch_mb) ==
    BatchLoop([batches |-> <<>>, cur |-> <<>>, cur_size |-> 0],
              files, batch_size, batch_mb * MiB).batches

\* Step 2 of run after the sort: the loop, then "if cur: batches.append(cur)"
BatchSplit(files, batch_size, batch_mb) ==
    LET st == BatchLoop([batches |-> <<>>, cur |-> <<>>, cur_size |-> 0],
                        files, batch_size, batch_mb * MiB)
    IN  IF st.cur # <<>> THEN Append(st.batches, st.cur) ELSE st.batches

-----------------------------------------------------------------------------
(* File names of the CLI converter.  The output directory is a function    *)
(* from file name to content; os.path.exists(filepath) is membership in    *)
(* its domain.                                                             *)

\* ".eml"
EmlExt == <<46, 101, 109, 108>>

\* decimal digits of n >= 0
RECURSIVE Digits(_)
Digits(n) ==
    IF n < 10 THEN <<48 + n>> ELSE Digits(n \div 10) \o <<48 + (n % 10)>>

RECURSIVE Zeros(_)
Zeros(k) == IF k <= 0 THEN <<>> ELSE <<48>> \o Zeros(k - 1)

\* f"{n:0{width}d}"
ZeroPad(n, width) == Zeros(width - Len(Digits(n))) \o Digits(n)

\* the class [\w\.-] on ASCII text
AddrChars == (48..57) \cup (65..90) \cup (97..122) \cup {95, 46, 45}

\* last position of the run of AddrChars that starts at i (i-1 if none)
RECURSIVE RunEnd(_, _)
RunEnd(s, i) ==
    IF i <= Len(s) /\ s[i] \in AddrChars THEN RunEnd(s, i + 1) ELSE i - 1

\* re.search(r'[\w\.-]+@[\w\.-]+', s) from position i on: the match, or
\* <<>> for None.  '@' is outside the class, so the greedy first run must
\* end right before it.
RECURSIVE EmailSearch(_, _)
EmailSearch(s, i) ==
    IF i > Len(s) THEN <<>>
    ELSE LET j == RunEnd(s, i)
         IN  IF /\ j >= i
                /\ j + 2 <= Len(s)
                /\ s[j + 1] = 64
                /\ s[j + 2] \in AddrChars
             THEN SubSeq(s, i, RunEnd(s, j + 2))
             ELSE EmailSearch(s, i + 1)

\* "No Subject"
DefaultSubject == <<78, 111, 32, 83, 117, 98, 106, 101, 99, 116>>

\* "Unknown Sender"
DefaultSender ==
    <<85, 110, 107, 110, 111, 119, 110, 32, 83, 101, 110, 100, 101, 114>>

\* msg.get(name, default): a header is [present, text]
GetHeader(msg, name, default) ==
    IF msg[name].present THEN msg[name].text ELSE default

\* base_name of get_safe_filename
BaseName(msg, idx) ==
    LET subject     == GetHeader(msg, "Subject", DefaultSubject)
        sender      == GetHeader(msg, "From", DefaultSender)
        email_match == EmailSearch(sender, 1)
        sender_name == IF email_match # <<>> THEN email_match ELSE sender
    IN  ZeroPad(idx, 4) \o <<95>>
        \o sanitize_filename(subject, CliDefaultMaxLength) \o <<95>>
        \o sanitize_filename(sender_name, CliDefaultMaxLength)

\* f"{base_name}_{counter}.eml"
Suffixed(base_name, counter) ==
    base_name \o <<95>> \o Digits(counter) \o EmlExt

\* the while loop of get_safe_filename, from counter on
RECURSIVE UniqueFrom(_, _, _)
UniqueFrom(base_name, counter, existing) ==
    IF Suffixed(base_name, counter) \in existing
    THEN UniqueFrom(base_name, counter + 1, existing)
    ELSE Suffixed(base_name, counter)

\* get_safe_filename without the uniqueness loop
get_safe_filename_no_loop(msg, idx, existing) ==
    BaseName(msg, idx) \o EmlExt

\* get_safe_filename(msg, index, output_dir), existing = the names in
\* output_dir
get_safe_filename(msg, idx, existing) ==
    LET base_name == BaseName(msg, idx)
    IN  IF (base_name \o EmlExt) \in existing
        THEN UniqueFrom(base_name, 1, existing)
        ELSE base_name \o EmlExt

\* the "except Exception" handler of the message loop returning instead
\* of continuing
OnMessageErrorStop(errors) ==
    [error_count |-> errors + 1, pc |-> "returned"]

\* the "except Exception" handler of the message loop: count, continue
OnMessageError(errors) ==
    [error_count |-> errors + 1, pc |-> "loop"]

\* the exit code main derives from (success, errors)
ExitCode(success, errors) ==
    IF errors = 0 THEN 0
    ELSE IF success > 0 THEN 1
    ELSE 2

-----------------------------------------------------------------------------
(* Initial values of the variables a specification does not use *)

SanIdle ==
    /\ filename = <<>>
    /\ max_length = 0
    /\ called = "unused"
    /\ result = <<>>

PartIdle ==
    /\ eml_files = <<>>
    /\ bs = 0
    /\ mb = 0
    /\ batches = <<>>
    /\ part_pc = "unused"

ConvIdle ==
    /\ conv_pc = "unused"
    /\ n_msgs = 0
    /\ index = 0
    /\ success_count = 0
    /\ error_count = 0
    /\ total_count = 0
    /\ exit_code = -1
    /\ out_fs = <<>>
    /\ start_fs = <<>>
    /\ written = <<>>
    /\ outcomes = <<>>

GuiIdle ==
    /\ gui_fs = <<>>
    /\ gui_prev = <<>>
    /\ gui_last = <<>>
    /\ gui_runs = 0

-----------------------------------------------------------------------------
(* SpecSanitize: the sanitizers applied to every text over Alphabet of     *)
(* length at most MaxStrLen.                                               *)

\* a letter, a space, a tab, a backslash, a colon and the control char SOH
Alphabet == {97, 32, 9, 92, 58, 1}

RECURSIVE Texts(_)
Texts(n) ==
    IF n = 0 THEN {<<>>}
    ELSE LET shorter == Texts(n - 1)
         IN  shorter \cup {Append(t, c) : t \in shorter, c \in Alphabet}

LengthArgs == (1..MaxLenArg) \cup {13, GuiDefaultMaxLen, CliDefaultMaxLength}

SanInit ==
    /\ filename \in Texts(MaxStrLen)
    /\ max_length \in LengthArgs
    /\ called = "none"
    /\ result = <<>>
    /\ PartIdle /\ ConvIdle /\ GuiIdle

CallSanitizeFilename ==
    /\ called = "none"
    /\ result' = sanitize_filename(filename, max_length)
    /\ called' = "sanitize_filename"
    /\ UNCHANGED <<filename, max_length, partVars, convVars, guiVars>>

CallSanitize ==
    /\ called = "none"
    /\ result' = sanitize(filename, max_length)
    /\ called' = "sanitize"
    /\ UNCHANGED <<filename, max_length, partVars, convVars, guiVars>>

SanNext == CallSanitizeFilename \/ CallSanitize

SpecSanitize == SanInit /\ [][SanNext]_vars

-----------------------------------------------------------------------------
(* SpecPartition: the batch-splitting loop applied to every sequence of at *)
(* most MaxFiles files, in any order of sizes.                             *)

SizeChoices == {0, MiB \div 2, MiB, MiB + 1, 2 * MiB + 1}

FileSeqs ==
    UNION {[1..n -> SizeChoices] : n \in 0..MaxFiles}

\* the files of a sequence of sizes, named by their position
FilesOf(sizes) == [i \in 1..Len(sizes) |-> [name |-> i, size |-> sizes[i]]]

PartInit ==
    /\ \E sizes \in FileSeqs : eml_files = FilesOf(sizes)
    /\ bs \in 0..MaxBs
    /\ mb \in 0..MaxMb
    /\ batches = <<>>
    /\ part_pc = "input"
    /\ SanIdle /\ ConvIdle /\ GuiIdle

RunBatchSplit ==
    /\ part_pc = "input"
    /\ batches' = BatchSplit(eml_files, bs, mb)
    /\ part_pc' = "done"
    /\ UNCHANGED <<eml_files, bs, mb, sanVars, convVars, guiVars>>

PartNext == RunBatchSplit

SpecPartition == PartInit /\ [][PartNext]_vars

-----------------------------------------------------------------------------
(* SpecConvert: one run of main -> convert_mbox_to_eml over an archive of  *)
(* at most MaxMsgs messages, into an output directory with any initial     *)
(* content (such as the files an earlier run left).  The messages are      *)
(* taken one per step, as enumerate(mbox, 1) yields them.                  *)

Hdr(text) == [present |-> TRUE, text |-> text]
NoHdr     == [present |-> FALSE, text |-> <<>>]

\* Subject "a" from "b"; Subject "a" from "b_1"; no Subject from "<b@c>"
Messages ==
    { [Subject |-> Hdr(<<97>>), From |-> Hdr(<<98>>)],
      [Subject |-> Hdr(<<97>>), From |-> Hdr(<<98, 95, 49>>)],
      [Subject |-> NoHdr,       From |-> Hdr(<<60, 98, 64, 99, 62>>)] }

\* names an output directory may hold before the run: for each index the
\* first message's plain name and its first suffixed name (which is also
\* the second message's plain name)
PreExisting ==
    LET m == [Subject |-> Hdr(<<97>>), From |-> Hdr(<<98>>)]
    IN  UNION {{BaseName(m, i) \o EmlExt, Suffixed(BaseName(m, i), 1)}
               : i \in 1..MaxMsgs}

ConvInit ==
    /\ conv_pc = "start"
    /\ n_msgs = 0
    /\ index = 0
    /\ success_count = 0
    /\ error_count = 0
    /\ total_count = 0
    /\ exit_code = -1
    /\ \E names \in SUBSET PreExisting : out_fs = [p \in names |-> <<"old">>]
    /\ start_fs = out_fs
    /\ written = <<>>
    /\ outcomes = <<>>
    /\ SanIdle /\ PartIdle /\ GuiIdle

\* out_fs with name p (re)created holding c: open(p, 'w') and the write
WriteFile(fs, p, c) ==
    [q \in DOMAIN fs \cup {p} |-> IF q = p THEN c ELSE fs[q]]

\* os.path.exists(mbox_file) is false: FileNotFoundError, before mkdir
ConvertNotFound ==
    /\ conv_pc = "start"
    /\ conv_pc' = "raised"
    /\ UNCHANGED <<n_msgs, index, success_count, error_count, total_count,
                   exit_code, out_fs, start_fs, written, outcomes>>
    /\ UNCHANGED <<sanVars, partVars, guiVars>>

\* mkdir(exist_ok=True), counters zeroed, the archive of n messages opened
ConvertOpen ==
    /\ conv_pc = "start"
    /\ \E n \in 0..MaxMsgs : n_msgs' = n
    /\ success_count' = 0
    /\ error_count' = 0
    /\ total_count' = 0
    /\ conv_pc' = "loop"
    /\ UNCHANGED <<index, exit_code, out_fs, start_fs, written, outcomes>>
    /\ UNCHANGED <<sanVars, partVars, guiVars>>

\* mailbox.mbox or its iteration raises: the outer handler re-raises
\* RuntimeError
ConvertArchiveError ==
    /\ conv_pc = "loop"
    /\ conv_pc' = "raised"
    /\ UNCHANGED <<n_msgs, index, success_count, error_count, total_count,
                   exit_code, out_fs, start_fs, written, outcomes>>
    /\ UNCHANGED <<sanVars, partVars, guiVars>>

\* one iteration in which the message is named and written
ProcessMessageOk ==
    /\ conv_pc = "loop"
    /\ index < n_msgs
    /\ \E message \in Messages :
         LET i    == index + 1
             path == get_safe_filename(message, i, DOMAIN out_fs)
         IN  /\ index' = i
             /\ total_count' = i
             /\ out_fs' = WriteFile(out_fs, path, <<"eml", i>>)
             /\ written' = Append(written,
                                  [path |-> path,
                                   base |-> BaseName(message, i),
                                   before |-> DOMAIN out_fs])
             /\ success_count' = success_count + 1
             /\ outcomes' = Append(outcomes, "ok")
    /\ UNCHANGED <<conv_pc, n_msgs, error_count, exit_code, start_fs>>
    /\ UNCHANGED <<sanVars, partVars, guiVars>>

\* one iteration in which get_safe_filename or open raises: no file
ProcessMessageNoFile ==
    /\ conv_pc = "loop"
    /\ index < n_msgs
    /\ index' = index + 1
    /\ total_count' = index + 1
    /\ error_count' = OnMessageError(error_count).error_count
    /\ conv_pc' = OnMessageError(error_count).pc
    /\ outcomes' = Append(outcomes, "fail")
    /\ UNCHANGED <<n_msgs, success_count, exit_code, out_fs, start_fs,
                   written>>
    /\ UNCHANGED <<sanVars, partVars, guiVars>>

\* one iteration in which Generator.flatten raises after open created the
\* file: the file stays, with part of the message
ProcessMessagePartial ==
    /\ conv_pc = "loop"
    /\ index < n_msgs
    /\ \E message \in Messages :
         LET i    == index + 1
             path == get_safe_filename(message, i, DOMAIN out_fs)
         IN  /\ index' = i
             /\ total_count' = i
             /\ out_fs' = WriteFile(out_fs, path, <<"partial", i>>)
             /\ written' = Append(written,
                                  [path |-> path,
                                   base |-> BaseName(message, i),
                                   before |-> DOMAIN out_fs])
    /\ error_count' = OnMessageError(error_count).error_count
    /\ conv_pc' = OnMessageError(error_count).pc
    /\ outcomes' = Append(outcomes, "fail")
    /\ UNCHANGED <<n_msgs, success_count, exit_code, start_fs>>
    /\ UNCHANGED <<sanVars, partVars, guiVars>>

\* the archive is exhausted: return success_count, error_count, total_count
ConvertReturn ==
    /\ conv_pc = "loop"
    /\ index = n_msgs
    /\ conv_pc' = "returned"
    /\ UNCHANGED <<n_msgs, index, success_count, error_count, total_count,
                   exit_code, out_fs, start_fs, written, outcomes>>
    /\ UNCHANGED <<sanVars, partVars, guiVars>>

\* main after convert_mbox_to_eml returned
MainExit ==
    /\ conv_pc = "returned"
    /\ exit_code' = ExitCode(success_count, error_count)
    /\ conv_pc' = "exited"
    /\ UNCHANGED <<n_msgs, index, success_count, error_count, total_count,
                   out_fs, start_fs, written, outcomes>>
    /\ UNCHANGED <<sanVars, partVars, guiVars>>

\* main after convert_mbox_to_eml raised: both handlers exit with 2
MainExitOnError ==
    /\ conv_pc = "raised"
    /\ exit_code' = 2
    /\ conv_pc' = "exited_on_error"
    /\ UNCHANGED <<n_msgs, index, success_count, error_count, total_count,
                   out_fs, start_fs, written, outcomes>>
    /\ UNCHANGED <<sanVars, partVars, guiVars>>

ConvNext ==
    \/ ConvertNotFound
    \/ ConvertOpen
    \/ ConvertArchiveError
    \/ ProcessMessageOk
    \/ ProcessMessageNoFile
    \/ ProcessMessagePartial
    \/ ConvertReturn
    \/ MainExit
    \/ MainExitOnError

SpecConvert == ConvInit /\ [][ConvNext]_vars

-----------------------------------------------------------------------------
(* SpecGui: MboxToEmlBatchGUI.run, invoked up to MaxRuns times on the same *)
(* output directory.  A run is one step.  An archive is a sequence of      *)
(* messages [Subject, size]; an eml file holds [msg, size], the message    *)
(* written and the file's st_size.                                         *)

\* "batch_"
BatchPrefix == <<98, 97, 116, 99, 104, 95>>

\* "msg"
MsgSuffix == <<109, 115, 103>>

\* decode_subject on a header without encoded words: decode_header gives
\* the text back as its single part
decode_subject(raw_subj) == raw_subj

\* fn = f"{i:05d}_{safe_subj}.eml"
EmlName(msg, i) ==
    LET raw_subj  == GetHeader(msg, "Subject", NoSubject)
        subj      == decode_subject(raw_subj)
        safe_subj == sanitize(subj, GuiDefaultMaxLen)
    IN  ZeroPad(i, 5) \o <<95>> \o safe_subj \o EmlExt

\* f"batch_{idx:03d}_{len(b)}msg"
BatchDirName(idx, b) ==
    BatchPrefix \o ZeroPad(idx, 3) \o <<95>> \o Digits(Len(b)) \o MsgSuffix

\* Step 1 over the first k messages of the archive: each written over
\* whatever its name held
RECURSIVE WriteAll(_, _, _)
WriteAll(all_eml, archive, k) ==
    IF k = 0 THEN all_eml
    ELSE WriteFile(WriteAll(all_eml, archive, k - 1),
                   EmlName(archive[k], k),
                   [msg |-> archive[k], size |-> archive[k].size])

RECURSIVE Perms(_)
Perms(S) ==
    IF S = {} THEN {<<>>}
    ELSE UNION {{<<x>> \o q : q \in Perms(S \ {x})} : x \in S}

\* sorted(eml_dir.glob("*.eml"), key=st_size): the glob order is the
\* directory's, and the sort is stable, so files of equal size come in any
\* order
SortedGlobs(all_eml) ==
    {[i \in 1..Len(q) |-> [name |-> q[i], size |-> all_eml[q[i]].size]] :
        q \in {r \in Perms(DOMAIN all_eml) :
                 \A i \in 1..(Len(r) - 1) :
                     all_eml[r[i]].size <= all_eml[r[i + 1]].size}}

\* Step 3 for batches idx..: mkdir(exist_ok=True), copy2 of every file
RECURSIVE CopyBatches(_, _, _, _)
CopyBatches(dirs, all_eml, bb, idx) ==
    IF idx > Len(bb) THEN dirs
    ELSE LET bd  == BatchDirName(idx, bb[idx])
             old == IF bd \in DOMAIN dirs THEN dirs[bd] ELSE <<>>
             new == [n \in DOMAIN old \cup {bb[idx][j].name :
                                             j \in 1..Len(bb[idx])} |->
                        IF \E j \in 1..Len(bb[idx]) : bb[idx][j].name = n
                        THEN all_eml[n] ELSE old[n]]
         IN  CopyBatches(WriteFile(dirs, bd, new), all_eml, bb, idx + 1)

\* gui_last after a run that ended with status under the given parameters
LastRun(status, batch_size, batch_mb) ==
    [status |-> status, bs |-> batch_size, mb |-> batch_mb,
     all_valid |-> gui_last.all_valid /\ batch_size >= 1 /\ batch_mb >= 1]

GuiMessages ==
    {[Subject |-> h, size |-> z] :
        h \in {Hdr(<<97>>), NoHdr}, z \in {MiB \div 2, MiB + 1}}

GuiArchives == UNION {[1..n -> GuiMessages] : n \in 0..MaxMsgs}

GuiInit ==
    /\ gui_fs = [all_eml |-> <<>>, batch_dirs |-> <<>>,
                 instructions |-> <<>>]
    /\ gui_prev = gui_fs
    /\ gui_last = [status |-> "none", bs |-> 0, mb |-> 0, all_valid |-> TRUE]
    /\ gui_runs = 0
    /\ SanIdle /\ PartIdle /\ ConvIdle

\* "MBOX file not found": the run returns at once
GuiRunNotFound ==
    /\ gui_runs < MaxRuns
    /\ gui_runs' = gui_runs + 1
    /\ gui_prev' = gui_fs
    /\ \E batch_size \in 0..MaxBs, batch_mb \in 0..MaxMb :
          gui_last' = LastRun("not_found", batch_size, batch_mb)
    /\ UNCHANGED <<gui_fs, sanVars, partVars, convVars>>

\* "Cannot create output directory": the run returns at once
GuiRunCannotCreate ==
    /\ gui_runs < MaxRuns
    /\ gui_runs' = gui_runs + 1
    /\ gui_prev' = gui_fs
    /\ \E batch_size \in 0..MaxBs, batch_mb \in 0..MaxMb :
          gui_last' = LastRun("cannot_create", batch_size, batch_mb)
    /\ UNCHANGED <<gui_fs, sanVars, partVars, convVars>>

\* Step 1 raises: at message k (open or flatten fails), or at "total = i"
\* when the archive is empty and i was never bound.  Nothing after Step 1
\* runs.
GuiRunAborted ==
    /\ gui_runs < MaxRuns
    /\ gui_runs' = gui_runs + 1
    /\ gui_prev' = gui_fs
    /\ \E archive \in GuiArchives, batch_size \in 0..MaxBs,
          batch_mb \in 0..MaxMb :
         /\ gui_last' = LastRun("aborted", batch_size, batch_mb)
         /\ IF archive = <<>>
            THEN gui_fs' = gui_fs
            ELSE \E k \in 1..Len(archive), created \in BOOLEAN :
                   LET done == WriteAll(gui_fs.all_eml, archive, k - 1)
                   IN  gui_fs' =
                         [gui_fs EXCEPT !.all_eml =
                            IF created
                            THEN WriteFile(done, EmlName(archive[k], k),
                                           [msg |-> archive[k], size |-> 0])
                            ELSE done]
    /\ UNCHANGED <<sanVars, partVars, convVars>>

\* a run that reaches "Conversion & batching complete!"
GuiRunCompleted ==
    /\ gui_runs < MaxRuns
    /\ gui_runs' = gui_runs + 1
    /\ gui_prev' = gui_fs
    /\ \E archive \in GuiArchives \ {<<>>}, batch_size \in 0..MaxBs,
          batch_mb \in 0..MaxMb :
         LET all_eml == WriteAll(gui_fs.all_eml, archive, Len(archive))
             total   == Len(archive)
         IN  \E files \in SortedGlobs(all_eml) :
               LET bb   == BatchSplit(files, batch_size, batch_mb)
                   dirs == CopyBatches(gui_fs.batch_dirs, all_eml, bb, 1)
               IN  /\ gui_fs' =
                        [all_eml |-> all_eml,
                         batch_dirs |-> dirs,
                         instructions |->
                            [total |-> total,
                             batches |-> [i \in 1..Len(bb) |->
                                            BatchDirName(i, bb[i])]]]
                   /\ gui_last' = LastRun("completed", batch_size, batch_mb)
    /\ UNCHANGED <<sanVars, partVars, convVars>>

GuiNext ==
    \/ GuiRunNotFound
    \/ GuiRunCannotCreate
    \/ GuiRunAborted
    \/ GuiRunCompleted

SpecGui == GuiInit /\ [][GuiNext]_vars

RECURSIVE Concat(_)
Concat(bb) == IF bb = <<>> THEN <<>> ELSE Head(bb) \o Concat(Tail(bb))

-----------------------------------------------------------------------------
(* Claims about the sanitizers *)

\* the characters < > : " / \ | ? * and the ASCII control characters
ForbiddenChars == {60, 62, 58, 34, 47, 92, 124, 63, 42} \cup (0..31)

\* C3: the result of either sanitizer contains none of < > : " / \ | ? *
\* and no ASCII control character.
C3_NoForbiddenChars ==
    called \in {"sanitize_filename", "sanitize"} =>
        \A i \in 1..Len(result) : result[i] \notin ForbiddenChars

\* C4: for every max length >= 1 the result of either sanitizer is
\* non-empty and no longer than the max length.
C4_NonEmptyAndBounded ==
    (called \in {"sanitize_filename", "sanitize"} /\ max_length >= 1) =>
        (result # <<>> /\ Len(result) <= max_length)

-----------------------------------------------------------------------------
(* Claims about the batch-splitting loop *)

\* C1: with batch_size >= 1 and batch_mb >= 1, every batch holds at most
\* batch_size files and at most maxb bytes, except that a batch of exactly
\* one file larger than maxb may exceed the byte bound.
C1_BatchBounds ==
    (part_pc = "done" /\ bs >= 1 /\ mb >= 1) =>
        \A k \in 1..Len(batches) :
            /\ Len(batches[k]) <= bs
            /\ \/ SumSizes(batches[k]) <= mb * MiB
               \/ (Len(batches[k]) = 1 /\ batches[k][1].size > mb * MiB)

\* C1 witness: a full batch closed by the count bound, followed by a batch
\* holding one oversized file alone
C1_Witness ==
    /\ part_pc = "done" /\ bs >= 2 /\ mb >= 1
    /\ \E k \in 1..Len(batches) : Len(batches[k]) = bs
    /\ \E k \in 1..Len(batches) :
           Len(batches[k]) = 1 /\ batches[k][1].size > mb * MiB

\* C2: the batches, concatenated in output order, are the input sequence
\* (for every batch_size and batch_mb, valid or not).
C2_Lossless ==
    part_pc = "done" => Concat(batches) = eml_files

\* C2 witness: an input of several files split into several batches
C2_Witness ==
    /\ part_pc = "done"
    /\ Len(eml_files) >= 3
    /\ Len(batches) >= 2
    /\ \E k \in 1..Len(batches) : Len(batches[k]) >= 2

\* C10: with batch_size >= 1 and batch_mb >= 1 no batch of the output is
\* empty, also when the first file is larger than maxb.
C10_NoEmptyBatch ==
    (part_pc = "done" /\ bs >= 1 /\ mb >= 1) =>
        \A k \in 1..Len(batches) : batches[k] # <<>>

-----------------------------------------------------------------------------
(* Claims about the CLI converter *)

\* number of "fail" entries of a sequence of outcomes
RECURSIVE Failures(_)
Failures(o) ==
    IF o = <<>> THEN 0
    ELSE (IF Head(o) = "fail" THEN 1 ELSE 0) + Failures(Tail(o))

\* C5: within one run the paths written are pairwise distinct, none of
\* them existed when the run started or when it was chosen, and each is
\* base.eml when that name was unused and otherwise base_k.eml for the
\* smallest k >= 1 whose name was unused.
C5_NoOverwrite ==
    /\ \A i, j \in 1..Len(written) :
           i # j => written[i].path # written[j].path
    /\ \A i \in 1..Len(written) :
           LET w == written[i]
           IN  /\ w.path \notin DOMAIN start_fs
               /\ w.path \notin w.before
               /\ IF (w.base \o EmlExt) \notin w.before
                  THEN w.path = w.base \o EmlExt
                  ELSE \E k \in 1..(Cardinality(w.before) + 1) :
                          /\ w.path = Suffixed(w.base, k)
                          /\ \A j \in 1..(k - 1) :
                                 Suffixed(w.base, j) \in w.before
    /\ \A p \in DOMAIN start_fs : out_fs[p] = start_fs[p]

\* C5 witness: a run that wrote two messages, one of them under a name
\* with suffix _2 because the plain name and the _1 name were taken
C5_Witness ==
    /\ conv_pc = "returned"
    /\ Len(written) = 2
    /\ \E i \in 1..Len(written) :
           written[i].path = Suffixed(written[i].base, 2)

\* C6: every message of the archive is attempted in order whatever fails:
\* after each iteration success_count + error_count is the index of the
\* last message and error_count is the number of failed messages; at the
\* return total_count, and success_count + error_count, is the number of
\* messages of the archive.
C6_ContinueOnError ==
    /\ conv_pc \in {"loop", "returned"} =>
           /\ success_count + error_count = index
           /\ total_count = index
           /\ Len(outcomes) = index
           /\ error_count = Failures(outcomes)
    /\ conv_pc = "returned" =>
           /\ total_count = n_msgs
           /\ success_count + error_count = n_msgs

\* C6 witness: a run that returned after its first message failed and a
\* later one was written
C6_Witness ==
    /\ conv_pc = "returned"
    /\ n_msgs >= 2
    /\ outcomes[1] = "fail"
    /\ outcomes[n_msgs] = "ok"
    /\ success_count >= 1 /\ error_count >= 1

\* C7: main exits 2 whenever no message succeeded or the archive could not
\* be opened, 1 whenever some message failed and some succeeded, and 0
\* only when some message was converted and none failed.
C7_ExitCodes ==
    /\ conv_pc = "exited_on_error" => exit_code = 2
    /\ conv_pc = "exited" =>
           /\ success_count = 0 => exit_code = 2
           /\ (success_count > 0 /\ error_count > 0) => exit_code = 1
           /\ exit_code = 0 => (success_count > 0 /\ error_count = 0)

-----------------------------------------------------------------------------
(* Claims about the GUI tool's runs *)

\* C8: a second run on an output directory that holds the files of a first
\* run leaves every eml file of the first run at its path with its content
\* (stated for a run that went through all its steps, after an earlier run
\* that did, every run with batch_size >= 1 and batch_mb >= 1).
C8_SecondRunKeepsFiles ==
    (gui_runs >= 2 /\ gui_last.status = "completed" /\ gui_last.all_valid
                   /\ gui_prev.instructions # <<>>) =>
        \A p \in DOMAIN gui_prev.all_eml :
            /\ p \in DOMAIN gui_fs.all_eml
            /\ gui_fs.all_eml[p] = gui_prev.all_eml[p]

\* C9: a run with batch_size < 1 or batch_mb < 1 is rejected before any
\* work: it writes no eml file and creates no batch directory (stated for a
\* run that found its archive and met no input/output error).
C9_BadConfigRejected ==
    (gui_last.status = "completed"
        /\ (gui_last.bs < 1 \/ gui_last.mb < 1)) =>
        /\ gui_fs.all_eml = gui_prev.all_eml
        /\ gui_fs.batch_dirs = gui_prev.batch_dirs

=============================================================================
